---- MODULE Spec2Model ----
(***************************************************************************)
(* Ingestion-to-broadcast pipeline of the DDoS monitor backend:            *)
(*   backend/app/redis_client.py   counters, recent list, publish          *)
(*   backend/app/ws_manager.py     connection registry, channel listener   *)
(*   backend/app/main.py           websocket handler                       *)
(* Every coroutine is cut at its awaits: one action per store command,     *)
(* per send and per synchronous stretch between two awaits.                *)
(***************************************************************************)
EXTENDS Integers, Sequences, FiniteSets, TLC

\* ------------------------------------------------------------------ bounds
MaxInc == 2          \* increment_today_counter calls in one behaviour
MaxAmount == 1       \* largest amount passed to increment_today_counter
MaxRot == 2          \* rotate_day_counter calls in one behaviour
MaxPush == 150       \* push_recent_attack calls in one behaviour
MaxConn == 2         \* websocket connections in one behaviour
MaxMsg == 2          \* publish_attack calls in one behaviour
MaxBad == 1          \* undecodable payloads put on the channel in one behaviour
MaxFail == 7         \* consecutive listener failures followed
MaxJoinPush == 1     \* push_recent_attack calls while connections join
MaxFire == 2         \* firings of one job that come due in one behaviour
MaxBatch == 2        \* entries in one fetched blacklist
MaxCats == 2         \* categories of one raw record

\* ------------------------------------------------------- program constants
\* redis GET of a missing key: None
Nil == -1

\* redis_client.MAX_RECENT_ATTACKS
MAX_RECENT_ATTACKS == 100

IncCalls == 1..MaxInc
RotCalls == 1..MaxRot
Amounts == 0..MaxAmount
Conns == 1..MaxConn
Msgs == 1..MaxMsg
\* the limits get_recent_attacks is called with
Limits == {0, 1, 100, 200}

VARIABLES
    counter_today,      \* key counter:today: Nil or the stored integer
    counter_yesterday,  \* key counter:yesterday: Nil or the stored integer
    yExpired,           \* the 25 h TTL of counter:yesterday has fired
    incPc,              \* per increment call: "idle", "exec", "done"
    incAmt,             \* its amount
    incRet,             \* its return value (results[0])
    incAfter,           \* issued after a rotation had completed
    rotPc,              \* per rotation call: "idle", "piped", "done"
    rotVal,             \* its local today_val
    firstStored,        \* what the first rotation to execute stored (Nil: none yet)
    firstTotal,         \* GetToday when the first rotation executed (Nil: none yet)
    lastGet,            \* the rotation whose GET was the store's last command (0: none)
    attacks_recent,     \* key attacks:recent: a list of JSON strings, head first
    nPushed,            \* pushes executed; the k-th push carries event k
    sinceExpiry,        \* pushes executed since the 1 h TTL last fired
    getLimit,           \* limit of the get_recent_attacks reply in hand (Nil: none)
    getRes,             \* that reply
    active,             \* ConnectionManager.active
    connPc,             \* per connection, where ws_attacks is: "new", "hello",
                        \* "recent", "loop", "closed"
    received,           \* per connection, the frames delivered to the client
    lsPc,               \* redis_pubsub_listener: "connect", "listen", "bcast", "sleep"
    backoff,            \* its local backoff
    chan,               \* messages the subscription holds for pubsub.listen()
    nPublished,         \* publish_attack calls; the k-th publishes event k
    bMsg,               \* broadcast: the event of the message being sent
    bTodo,              \* broadcast: members of list(self.active) still to send to
    bDead,              \* broadcast: its local dead
    bSnap,              \* self.active when the last broadcast began
    bAttempted,         \* the connections it has called send_json on
    bFailed,            \* the connections whose send_json raised in it
    bCur,               \* broadcast: the connection whose send_json is awaited (0: none)
    slow,               \* connections whose client has stopped reading
    fails,              \* listener: failures in a row since subscribe last returned
    skipped,            \* listener: messages dropped at json.loads
    nBad,               \* undecodable payloads put on the channel
    due,                \* per job, the firings that have come due
    started,            \* per job, the runs the executor has begun
    running,            \* per job, the runs in progress (the executor's instances)
    ingPc,              \* job_ingest_abuseipdb: "idle", "fetch", "push", "publish", "incr"
    attacks,            \* its local attacks
    idx,                \* the position of its for loop in attacks
    opLog,              \* the store calls of its current run: <<event, call, returned>>
    fetched,            \* how the fetch of its current run ended ("none": not yet)
    raised,             \* its current run raised into the executor
    raw,                \* its local raw (<<>>: the fetch returned none)
    missed,             \* the events it published with no subscription open
    resetPc,            \* job_midnight_reset: "idle", "get", "exec"
    resetVal,           \* today_val of the rotate_day_counter it runs
    shutPc,             \* lifespan: "serving", "cancelled" (awaiting the task), "stopped"
    schedulerRunning,   \* the scheduler has been started and not shut down
    cancelledAt,        \* where the listener was when it was cancelled ("none": not yet)
    sevIn,              \* pure call: the score handed to confidence_to_severity
    sevOut,             \* pure call: what it returned (None: not called)
    catIn,              \* pure call: the list handed to map_categories_to_attack_type
    catOut,             \* pure call: what it returned (None: not called)
    nzIn,               \* pure call: the response handed to normalize_abuseipdb_response
    nzOut,              \* pure call: how it ended and the list it returned
    geoIn,              \* pure call: the attack handed to enrich_attack_with_geo
    geoOut              \* pure call: <<the attack it returned>> (<<>>: not called)

storeVars == <<counter_today, counter_yesterday, yExpired, incPc, incAmt,
               incRet, incAfter, rotPc, rotVal, firstStored, firstTotal, lastGet>>

recentVars == <<attacks_recent, nPushed, sinceExpiry, getLimit, getRes>>

fanVars == <<active, connPc, received, lsPc, backoff, chan, nPublished,
             bMsg, bTodo, bDead, bSnap, bAttempted, bFailed, bCur, slow,
             fails, skipped, nBad>>

jobVars == <<due, started, running, ingPc, attacks, idx, opLog, fetched,
             raised, raw, missed, resetPc, resetVal>>

lifeVars == <<shutPc, schedulerRunning, cancelledAt>>

pureVars == <<sevIn, sevOut, catIn, catOut, nzIn, nzOut, geoIn, geoOut>>

vars == <<storeVars, recentVars, fanVars, jobVars, lifeVars, pureVars>>

\* what the actions of one part leave alone
notStore == <<recentVars, fanVars, jobVars, lifeVars, pureVars>>
notRecent == <<storeVars, fanVars, jobVars, lifeVars, pureVars>>
notFan == <<storeVars, recentVars, jobVars, lifeVars, pureVars>>
notJob == <<lifeVars, pureVars>>

\* --------------------------------------------------------- redis commands
\* python truthiness of a reply decoded as str: None is false, "0" is true
Truthy(val) == val # Nil

\* INCRBY key amount: a missing key counts as 0; replies the new value
IncrBySet(val, amount) == amount
IncrBy(val, amount) == (IF val = Nil THEN 0 ELSE val) + amount

\* get_today_counter: int(val) if val else 0
GetToday == IF Truthy(counter_today) THEN counter_today ELSE 0

\* get_yesterday_counter: int(val) if val else None
GetYesterday == IF Truthy(counter_yesterday) THEN counter_yesterday ELSE Nil

\* ------------------------------------------------ increment_today_counter
\* the call builds its one-command pipeline; calls are numbered in issue order
increment_today_counter_call(c, amount) ==
    /\ incPc[c] = "idle"
    /\ c > 1 => incPc[c - 1] # "idle"
    /\ incPc' = [incPc EXCEPT ![c] = "exec"]
    /\ incAmt' = [incAmt EXCEPT ![c] = amount]
    /\ incAfter' = [incAfter EXCEPT ![c] = \E r \in RotCalls : rotPc[r] = "done"]
    /\ UNCHANGED <<counter_today, counter_yesterday, yExpired, incRet, rotPc,
                   rotVal, firstStored, firstTotal, lastGet>>
    /\ UNCHANGED notStore

\* results[0] of the pipeline: the reply of INCRBY, the value after the add
Results0Before(old, new) == IF old = Nil THEN 0 ELSE old
Results0(old, new) == new

\* await pipe.execute(): MULTI / INCRBY / EXEC at the store; return results[0]
increment_today_counter_execute(c) ==
    /\ incPc[c] = "exec"
    /\ counter_today' = IncrBy(counter_today, incAmt[c])
    /\ incRet' = [incRet EXCEPT ![c] = Results0(counter_today, counter_today')]
    /\ incPc' = [incPc EXCEPT ![c] = "done"]
    /\ lastGet' = 0
    /\ UNCHANGED <<counter_yesterday, yExpired, incAmt, incAfter, rotPc, rotVal,
                   firstStored, firstTotal>>
    /\ UNCHANGED notStore

\* ----------------------------------------------------- rotate_day_counter
\* today_val = await get_redis().get(KEY_COUNTER_TODAY)
rotate_day_counter_get(r) ==
    /\ rotPc[r] = "idle"
    /\ r > 1 => rotPc[r - 1] # "idle"
    /\ rotVal' = [rotVal EXCEPT ![r] = counter_today]
    /\ rotPc' = [rotPc EXCEPT ![r] = "piped"]
    /\ lastGet' = r
    /\ UNCHANGED <<counter_today, counter_yesterday, yExpired, incPc, incAmt,
                   incRet, incAfter, firstStored, firstTotal>>
    /\ UNCHANGED notStore

\* await pipe.execute(): MULTI / [SETEX yesterday 90000 today_val] / DEL today / EXEC
RotateSet(val, old) == IF Truthy(val) THEN val ELSE old

rotate_day_counter_execute(r) ==
    /\ rotPc[r] = "piped"
    /\ counter_yesterday' = RotateSet(rotVal[r], counter_yesterday)
    /\ counter_today' = Nil
    /\ rotPc' = [rotPc EXCEPT ![r] = "done"]
    /\ lastGet' = 0
    /\ firstStored' = IF firstTotal = Nil
                         THEN (IF Truthy(rotVal[r]) THEN rotVal[r] ELSE 0)
                         ELSE firstStored
    /\ firstTotal' = IF firstTotal = Nil THEN GetToday ELSE firstTotal
    /\ UNCHANGED <<yExpired, incPc, incAmt, incRet, incAfter, rotVal>>
    /\ UNCHANGED notStore

\* the TTL set by SETEX runs out: the store drops counter:yesterday
expire_counter_yesterday ==
    /\ counter_yesterday # Nil
    /\ counter_yesterday' = Nil
    /\ yExpired' = TRUE
    /\ lastGet' = 0
    /\ UNCHANGED <<counter_today, incPc, incAmt, incRet, incAfter, rotPc, rotVal,
                   firstStored, firstTotal>>
    /\ UNCHANGED notStore

\* ------------------------------------------------- counters: the claims
RECURSIVE SumAmt(_)
\* the sum of the amounts of the increment calls in S
SumAmt(S) ==
    IF S = {} THEN 0
    ELSE LET c == CHOOSE x \in S : TRUE IN incAmt[c] + SumAmt(S \ {c})

SumExecuted == SumAmt({c \in IncCalls : incPc[c] = "done"})
SumIssuedAfter == SumAmt({c \in IncCalls : incPc[c] = "done" /\ incAfter[c]})

NoIncInFlight == \A c \in IncCalls : incPc[c] # "exec"
NoRotation == \A r \in RotCalls : rotPc[r] = "idle"
OneRotationDone == rotPc[1] = "done" /\ \A r \in RotCalls : r > 1 => rotPc[r] = "idle"
TwoRotationsDone ==
    /\ MaxRot >= 2
    /\ \A r \in RotCalls : IF r <= 2 THEN rotPc[r] = "done" ELSE rotPc[r] = "idle"
\* what rotation r stored as yesterday (nothing stored counts as 0)
StoredBy(r) == IF Truthy(rotVal[r]) THEN rotVal[r] ELSE 0
YesterdayTotal == IF counter_yesterday = Nil THEN 0 ELSE counter_yesterday
IncExecStep(c) == incPc[c] = "exec" /\ incPc'[c] = "done"
RotExecStep(r) == rotPc[r] = "piped" /\ rotPc'[r] = "done"

\* C1: with one rotation and every increment call completed, the value the
\* rotation stored as yesterday plus today equals the initial today (0, a
\* fresh store) plus the sum of all increments issued: no increment is lost.
C1_NoIncrementLost ==
    (OneRotationDone /\ NoIncInFlight) => StoredBy(1) + GetToday = SumExecuted

\* C2: during and after a rotation at least one of counter:today and
\* counter:yesterday is present.
C2_NeverBothAbsent ==
    (\E r \in RotCalls : rotPc[r] # "idle")
        => (counter_today # Nil \/ counter_yesterday # Nil)

\* C3: a rotation whose GET and EXEC are not separated by any other store
\* command leaves GetYesterday equal to the GetToday of before (0 for a day
\* without increments) and GetToday equal to 0.
C3_QuietRotationSnapshots ==
    [][\A r \in RotCalls :
          (RotExecStep(r) /\ lastGet = r)
              => (GetYesterday' = GetToday /\ GetToday' = 0)]_vars

\* C4: after two rotations for the same day boundary (no TTL expiry between
\* them) yesterday still holds the total accumulated before the first one:
\* the value the first rotation stored, or the today value it replaced.
C4_NoDoubledRollover ==
    (TwoRotationsDone /\ ~yExpired) => YesterdayTotal \in {firstStored, firstTotal}

\* C5: with one rotation and every increment call completed, today is at
\* least the sum of the increments issued after the rotation had completed.
C5_TodayCoversLaterIncrements ==
    (OneRotationDone /\ NoIncInFlight) => GetToday >= SumIssuedAfter

C5_Witness ==
    /\ OneRotationDone /\ NoIncInFlight
    /\ SumIssuedAfter >= 1
    /\ GetToday > SumIssuedAfter

\* C6: without a rotation today is the sum of the executed amounts; every
\* call returns the counter value right after its own add; and the today key
\* disappears only in the EXEC of a rotation (no TTL is ever set on it).
C6_AtomicAdd ==
    /\ [](NoRotation => GetToday = SumExecuted)
    /\ [][/\ \A c \in IncCalls :
                IncExecStep(c) => /\ incRet'[c] = GetToday + incAmt[c]
                                  /\ incRet'[c] = GetToday'
          /\ (counter_today # Nil /\ counter_today' = Nil)
                => \E r \in RotCalls : RotExecStep(r)]_vars

C6_Witness ==
    /\ NoRotation
    /\ \A c \in IncCalls : incPc[c] = "done"
    /\ GetToday >= 2
    /\ \E c \in IncCalls : incRet[c] = GetToday /\ incAmt[c] = 1

\* ------------------------------------------------------------ recent list
Min(a, b) == IF a < b THEN a ELSE b

\* json.dumps / json.loads of an event
Dumps(event) == <<"json", event>>
Loads(str) == str[2]

\* redis list indices: negative ones count from the tail; the range is
\* inclusive and clipped to the list
RangeFrom(len, start) ==
    LET s == IF start < 0 THEN len + start ELSE start IN IF s < 0 THEN 0 ELSE s
RangeTo(len, stop) ==
    LET e == IF stop < 0 THEN len + stop ELSE stop IN IF e >= len THEN len - 1 ELSE e
LRange(list, start, stop) ==
    LET s == RangeFrom(Len(list), start)
        e == RangeTo(Len(list), stop)
    IN IF s > e \/ s >= Len(list) THEN <<>> ELSE SubSeq(list, s + 1, e + 1)
LTrim(list, start, stop) == LRange(list, start, stop)
LPush(list, item) == <<item>> \o list

\* the pipeline of push_recent_attack: LPUSH, LTRIM 0 MAX-1 (EXPIRE: see the action)
PushPipelineTrimOneLate(list, attack_json) ==
    LTrim(LPush(list, attack_json), 0, MAX_RECENT_ATTACKS)
PushPipeline(list, attack_json) ==
    LTrim(LPush(list, attack_json), 0, MAX_RECENT_ATTACKS - 1)

\* await pipe.execute(): MULTI / LPUSH / LTRIM / EXPIRE 3600 / EXEC
push_recent_attack(event) ==
    /\ getLimit = Nil
    /\ nPushed < MaxPush
    /\ event = nPushed + 1
    /\ attacks_recent' = PushPipeline(attacks_recent, Dumps(event))
    /\ nPushed' = nPushed + 1
    /\ sinceExpiry' = sinceExpiry + 1
    /\ UNCHANGED <<getLimit, getRes>>
    /\ UNCHANGED notRecent

\* the TTL set by EXPIRE runs out: the store drops attacks:recent
expire_attacks_recent ==
    /\ getLimit = Nil
    /\ attacks_recent # <<>>
    /\ attacks_recent' = <<>>
    /\ sinceExpiry' = 0
    /\ UNCHANGED <<nPushed, getLimit, getRes>>
    /\ UNCHANGED notRecent

\* items = await lrange(KEY, 0, limit - 1); [json.loads(i) for i in items]
get_recent_attacks(limit) ==
    LET items == LRange(attacks_recent, 0, limit - 1)
    IN [i \in 1..Len(items) |-> Loads(items[i])]

get_recent_attacks_call(limit) ==
    /\ getLimit = Nil
    /\ getLimit' = limit
    /\ getRes' = get_recent_attacks(limit)
    /\ UNCHANGED <<attacks_recent, nPushed, sinceExpiry>>
    /\ UNCHANGED notRecent

\* the caller is done with the reply
get_recent_attacks_return ==
    /\ getLimit # Nil
    /\ getLimit' = Nil
    /\ getRes' = <<>>
    /\ UNCHANGED <<attacks_recent, nPushed, sinceExpiry>>
    /\ UNCHANGED notRecent

\* ---------------------------------------------- recent list: the claims
\* the k most recently pushed events, newest first
NewestFirst(k) == [i \in 1..k |-> nPushed - i + 1]
Decoded(list) == [i \in 1..Len(list) |-> Loads(list[i])]

\* C7: the history holds at most 100 entries, the most recently pushed ones
\* (all those pushed since the last expiry, up to 100), newest first; after
\* 150 pushes within the retention window GetRecent(200) is the last 100.
C7_BoundedNewestFirst ==
    /\ Len(attacks_recent) <= 100
    /\ Decoded(attacks_recent) = NewestFirst(Min(100, sinceExpiry))
    /\ (nPushed = 150 /\ sinceExpiry = nPushed /\ getLimit = 200)
          => getRes = [i \in 1..100 |-> 151 - i]

C7_Witness ==
    /\ nPushed = 150 /\ sinceExpiry = 150 /\ getLimit = 200
    /\ Len(getRes) = 100 /\ getRes[1] = 150 /\ getRes[100] = 51

\* C8: GetRecent(limit) is the min(limit, stored) newest entries, newest
\* first, and never more than limit entries.
C8_GetRecentAtMostLimit ==
    getLimit # Nil =>
        /\ Len(getRes) <= getLimit
        /\ getRes = SubSeq(Decoded(attacks_recent), 1,
                           Min(getLimit, Len(attacks_recent)))

\* ------------------------------------------------------ ConnectionManager
\* register: self.active.add(ws)
registerNothing(act, ws) == act
register(act, ws) == act \cup {ws}

\* unregister: self.active.discard(ws)
unregisterKeeps(act, ws) == act
unregister(act, ws) == act \ {ws}

\* ws_attacks: the try begins before the hello send, so its finally clause
\* unregisters the connection wherever (at) the handler is left
finally_after_hello_only(act, ws, at) == IF at = "hello" THEN act ELSE act \ {ws}
finally_unregister(act, ws, at) == unregister(act, ws)

\* broadcast, the loop: what is left of list(self.active) once the send to
\* ws has returned or raised (an exception is caught, the loop goes on)
RestAfterSendStopsOnError(todo, ws, ok) == IF ok THEN todo \ {ws} ELSE {}
RestAfterSend(todo, ws, ok) == todo \ {ws}

\* broadcast, after the loop: for ws in dead: self.active.discard(ws)
DiscardDead(act, dead) == act \ dead

Frames(c) == {received[c][i] : i \in 1..Len(received[c])}
Has(c, event) == <<"attack", event>> \in Frames(c)
\* connections whose handler has ended
Closed == {c \in Conns : connPc[c] = "closed"}

\* ------------------------------------------------------------- ws_attacks
\* await websocket.accept(); manager.register(websocket); the hello send begins
ws_attacks_accept(c) ==
    /\ connPc[c] = "new"
    /\ c > 1 => connPc[c - 1] # "new"
    /\ active' = register(active, c)
    /\ connPc' = [connPc EXCEPT ![c] = "hello"]
    /\ UNCHANGED <<received, lsPc, backoff, chan, nPublished, bMsg, bTodo,
                   bDead, bSnap, bAttempted, bFailed>>
    /\ UNCHANGED <<bCur, slow, fails, skipped, nBad>>
    /\ UNCHANGED notFan

\* the hello send returns, or raises: except ... finally: manager.unregister
ws_attacks_hello(c, ok) ==
    /\ connPc[c] = "hello"
    /\ IF ok
         THEN /\ received' = [received EXCEPT ![c] = Append(@, <<"connected">>)]
              /\ connPc' = [connPc EXCEPT ![c] = "recent"]
              /\ UNCHANGED active
         ELSE /\ active' = finally_unregister(active, c, connPc[c])
              /\ connPc' = [connPc EXCEPT ![c] = "closed"]
              /\ UNCHANGED received
    /\ UNCHANGED <<lsPc, backoff, chan, nPublished, bMsg, bTodo, bDead,
                   bSnap, bAttempted, bFailed>>
    /\ UNCHANGED <<bCur, slow, fails, skipped, nBad>>
    /\ UNCHANGED notFan

\* recent = await get_recent_attacks(100); if recent: the initial_batch
\* frame is sent; a send that raises (as a store call that raises) is
\* caught by the inner except; either way on to the receive loop
ws_attacks_recent(c, ok) ==
    /\ connPc[c] = "recent"
    /\ LET recent == get_recent_attacks(100) IN
         received' = IF recent # <<>> /\ ok
                       THEN [received EXCEPT ![c] = Append(@, <<"initial_batch", recent>>)]
                       ELSE received
    /\ connPc' = [connPc EXCEPT ![c] = "loop"]
    /\ UNCHANGED <<active, lsPc, backoff, chan, nPublished, bMsg,
                   bTodo, bDead, bSnap, bAttempted, bFailed>>
    /\ UNCHANGED <<bCur, slow, fails, skipped, nBad>>
    /\ UNCHANGED notFan

\* await websocket.receive_text() raises (the client closed, or any other
\* error): finally: manager.unregister(websocket)
ws_attacks_disconnect(c) ==
    /\ connPc[c] = "loop"
    /\ active' = finally_unregister(active, c, connPc[c])
    /\ connPc' = [connPc EXCEPT ![c] = "closed"]
    /\ UNCHANGED <<received, lsPc, backoff, chan, nPublished, bMsg, bTodo,
                   bDead, bSnap, bAttempted, bFailed>>
    /\ UNCHANGED <<bCur, slow, fails, skipped, nBad>>
    /\ UNCHANGED notFan

\* --------------------------------------------------------- publish_attack
\* PUBLISH channel:attacks json.dumps(attack): the store hands it to the
\* subscriptions that exist now, and keeps nothing
Subscribed == lsPc \in {"listen", "bcast"}

publish_attack(event) ==
    /\ nPublished < MaxMsg
    /\ event = nPublished + 1
    /\ nPublished' = nPublished + 1
    /\ chan' = IF Subscribed
                 THEN Append(chan, [type |-> "message", data |-> Dumps(event)])
                 ELSE chan
    /\ UNCHANGED <<active, connPc, received, lsPc, backoff, bMsg, bTodo,
                   bDead, bSnap, bAttempted, bFailed>>
    /\ UNCHANGED <<bCur, slow, fails, skipped, nBad>>
    /\ UNCHANGED notFan

\* -------------------------------------------------- redis_pubsub_listener
\* what a new subscription holds for listen(): the subscribe confirmation,
\* and nothing of what was published before it (the backlog)
SubscribeRepliesWithBacklog(backlog) ==
    <<[type |-> "subscribe", data |-> <<"int", 1>>]>>
       \o (IF backlog = {} THEN <<>>
           ELSE <<[type |-> "message", data |-> Dumps(CHOOSE e \in backlog : TRUE)]>>)
SubscribeReplies(backlog) == <<[type |-> "subscribe", data |-> <<"int", 1>>]>>

\* await pubsub.subscribe(CHANNEL_ATTACKS) returns; backoff = 1; listen()
\* yields the subscribe confirmation first
listener_subscribed ==
    /\ lsPc = "connect"
    /\ lsPc' = "listen"
    /\ backoff' = 1
    /\ chan' = SubscribeReplies(missed)
    /\ UNCHANGED <<active, connPc, received, nPublished, bMsg, bTodo, bDead,
                   bSnap, bAttempted, bFailed>>
    /\ fails' = 0
    /\ UNCHANGED <<bCur, slow, skipped, nBad>>
    /\ UNCHANGED notFan

\* subscribe, or the wait for the next message, raises: the outer except
\* logs and starts asyncio.sleep(backoff)
listener_connection_lost ==
    /\ lsPc \in {"connect", "listen"}
    /\ lsPc' = "sleep"
    /\ chan' = <<>>
    /\ UNCHANGED <<active, connPc, received, backoff, nPublished, bMsg, bTodo,
                   bDead, bSnap, bAttempted, bFailed>>
    /\ fails < MaxFail
    /\ fails' = fails + 1
    /\ UNCHANGED <<bCur, slow, skipped, nBad>>
    /\ UNCHANGED notFan

\* backoff = min(backoff * 2, 30)
NextBackoffUncapped(b) == b * 2
NextBackoff(b) == Min(b * 2, 30)

\* while True: when the try statement is left, by the end of the message
\* stream or by the except clause, the loop body starts again
WhileOnce(pc) == "done"
WhileTrue(pc) == "connect"

\* the sleep returns; backoff = min(backoff * 2, 30); while True again
listener_slept ==
    /\ lsPc = "sleep"
    /\ backoff' = NextBackoff(backoff)
    /\ lsPc' = WhileTrue(lsPc)
    /\ UNCHANGED <<active, connPc, received, chan, nPublished, bMsg, bTodo,
                   bDead, bSnap, bAttempted, bFailed>>
    /\ UNCHANGED <<bCur, slow, fails, skipped, nBad>>
    /\ UNCHANGED notFan

\* pubsub.listen() ends without raising (the subscription is gone): the
\* async for is left, nothing is slept, while True again with a new pubsub
listener_stream_end ==
    /\ lsPc = "listen"
    /\ lsPc' = WhileTrue(lsPc)
    /\ chan' = <<>>
    /\ UNCHANGED <<active, connPc, received, backoff, nPublished, bMsg, bTodo,
                   bDead, bSnap, bAttempted, bFailed>>
    /\ UNCHANGED <<bCur, slow, fails, skipped, nBad>>
    /\ UNCHANGED notFan

\* another client of the store publishes a payload that is not JSON
channel_message_malformed ==
    /\ nBad < MaxBad
    /\ nBad' = nBad + 1
    /\ chan' = IF Subscribed
                 THEN Append(chan, [type |-> "message", data |-> <<"text", nBad + 1>>])
                 ELSE chan
    /\ UNCHANGED <<active, connPc, received, lsPc, backoff, nPublished, bMsg,
                   bTodo, bDead, bSnap, bAttempted, bFailed>>
    /\ UNCHANGED <<bCur, slow, fails, skipped>>
    /\ UNCHANGED notFan

\* the client of an open connection stops reading: a send_json to it is
\* awaited without end
client_stalls(c) ==
    /\ connPc[c] \in {"hello", "recent", "loop"}
    /\ c \notin slow
    /\ slow' = slow \cup {c}
    /\ UNCHANGED <<active, connPc, received, lsPc, backoff, chan, nPublished,
                   bMsg, bTodo, bDead, bSnap, bAttempted, bFailed>>
    /\ UNCHANGED <<bCur, fails, skipped, nBad>>
    /\ UNCHANGED notFan

\* json.loads(message["data"]) succeeds on what json.dumps wrote
IsJsonAny(data) == TRUE
IsJson(data) == data[1] = "json"

\* listen() yields the next message: skipped unless its type is "message";
\* json.loads raising is caught and logged; else manager.broadcast begins:
\* nothing to do when self.active is empty, else the send to the first of
\* list(self.active), whose order is the set's
listener_message ==
    /\ lsPc = "listen"
    /\ chan # <<>>
    /\ chan' = Tail(chan)
    /\ LET message == Head(chan) IN
       IF message.type # "message"
         THEN UNCHANGED <<lsPc, bMsg, bTodo, bDead, bSnap, bAttempted, bFailed,
                          bCur, skipped>>
       ELSE IF ~IsJson(message.data)
         THEN /\ skipped' = skipped + 1
              /\ UNCHANGED <<lsPc, bMsg, bTodo, bDead, bSnap, bAttempted,
                             bFailed, bCur>>
         ELSE /\ bMsg' = Loads(message.data)
              /\ bSnap' = active
              /\ bAttempted' = {}
              /\ bFailed' = {}
              /\ bDead' = {}
              /\ UNCHANGED skipped
              /\ IF active = {}
                   THEN UNCHANGED <<lsPc, bTodo, bCur>>
                   ELSE /\ lsPc' = "bcast"
                        /\ bTodo' = active
                        /\ bCur' \in active
    /\ UNCHANGED <<active, connPc, received, backoff, nPublished, slow, fails, nBad>>
    /\ UNCHANGED notFan

\* await ws.send_json(message) returns (ok) or raises, unless the client
\* has stopped reading; a frame reaches the client only if its connection is
\* still open; the loop goes on to the next of list(self.active); after the
\* last send the dead are discarded and broadcast returns to the listener
broadcast_send(ws, ok) ==
    /\ lsPc = "bcast"
    /\ ws \in bTodo
    /\ bCur = ws
    /\ ws \notin slow
    /\ bAttempted' = bAttempted \cup {ws}
    /\ bFailed' = IF ok THEN bFailed ELSE bFailed \cup {ws}
    /\ received' = IF ok /\ connPc[ws] # "closed"
                     THEN [received EXCEPT ![ws] = Append(@, <<"attack", bMsg>>)]
                     ELSE received
    /\ bDead' = IF ok THEN bDead ELSE bDead \cup {ws}
    /\ LET rest == RestAfterSend(bTodo, ws, ok) IN
         /\ bTodo' = rest
         /\ IF rest = {}
              THEN /\ active' = DiscardDead(active, bDead')
                   /\ lsPc' = "listen"
                   /\ bCur' = 0
              ELSE /\ bCur' \in rest
                   /\ UNCHANGED <<active, lsPc>>
    /\ UNCHANGED <<connPc, backoff, chan, nPublished, bMsg, bSnap>>
    /\ UNCHANGED <<slow, fails, skipped, nBad>>
    /\ UNCHANGED notFan

\* -------------------------------------------------- fan-out: the claims
BroadcastEndStep == lsPc = "bcast" /\ lsPc' = "listen"

BroadcastReturned == bMsg # 0 /\ lsPc # "bcast"

\* C9: a broadcast calls send only on connections registered when it began
\* and, once returned, has called it on each of them; a connection holds the
\* event only if its send was made and did not raise, and does hold it if it
\* is still open; a connection whose handler has ended is not registered, so
\* no later broadcast reaches it (register A, B; publish E1; unregister B;
\* publish E2: A holds E1 and E2, B only E1).
C9_BroadcastToRegisteredOnly ==
    /\ bAttempted \subseteq bSnap
    /\ Closed \cap active = {}
    /\ \A c \in Conns : bMsg # 0 /\ Has(c, bMsg) => c \in bAttempted \ bFailed
    /\ \A c \in Conns, m \in Msgs : Has(c, m) => m <= bMsg
    /\ BroadcastReturned =>
          /\ bAttempted = bSnap
          /\ \A c \in bSnap \ bFailed : connPc[c] # "closed" => Has(c, bMsg)

C9_Witness ==
    /\ BroadcastReturned /\ bMsg = 2 /\ bSnap = {1}
    /\ connPc[1] = "loop" /\ connPc[2] = "closed"
    /\ received[1] = <<(<<"connected">>), <<"attack", 1>>, <<"attack", 2>> >>
    /\ received[2] = <<(<<"connected">>), <<"attack", 1>> >>

\* C10: once a broadcast has returned, every member of its snapshot has had
\* delivery attempted even when some sends raised, no connection whose send
\* raised is registered, and the broadcast removed none but those.
C10_FailedRemovedOthersAttempted ==
    /\ [](BroadcastReturned => bAttempted = bSnap /\ bFailed \cap active = {})
    /\ [][BroadcastEndStep => active' = active \ bFailed']_vars

C10_Witness ==
    /\ BroadcastReturned
    /\ bSnap = {1, 2}
    /\ bAttempted = {1, 2}
    /\ bFailed = {1}
    /\ active = {2}
    /\ Has(2, bMsg)

\* C11: a connection whose send does not complete does not hold up the rest:
\* while a broadcast is under way every connection of its snapshot whose
\* client still reads has its send made in the end, and every message the
\* subscription holds is taken up by the listener in the end.
C11_SlowConsumerNeverBlocks ==
    /\ \A c \in Conns :
          (lsPc = "bcast" /\ c \in bTodo /\ c \notin slow)
             ~> (c \notin bTodo \/ c \in slow)
    /\ (chan # <<>>) ~> (chan = <<>>)

\* C12: the delay slept after the k-th failure in a row since subscribe last
\* returned (or since the start) is min(2^(k-1), 30): 1, 2, 4, ... capped at
\* 30, and 1 again for the first failure after a subscribe that returned.
C12_BackoffDelay ==
    /\ backoff <= 30
    /\ lsPc = "sleep" => (fails >= 1 /\ backoff = Min(2 ^ (fails - 1), 30))
    /\ lsPc \in {"listen", "bcast"} => (fails = 0 /\ backoff = 1)

C12_Witness == lsPc = "sleep" /\ fails = 6 /\ backoff = 30 /\ skipped = 1

\* the listener takes a payload that is not JSON, or one that is, from the
\* subscription
MalformedStep ==
    /\ lsPc = "listen" /\ chan # <<>> /\ chan' = Tail(chan)
    /\ Head(chan).type = "message" /\ Head(chan).data[1] # "json"
ValidStep ==
    /\ lsPc = "listen" /\ chan # <<>> /\ chan' = Tail(chan)
    /\ Head(chan).type = "message" /\ Head(chan).data[1] = "json"

\* C13: an undecodable message is dropped: no frame is sent and no broadcast
\* begins for it, the listener stays subscribed with its backoff as it was;
\* a decodable event taken after it is broadcast to the registered
\* connections as usual.
C13_MalformedSkipped ==
    [][/\ MalformedStep =>
            /\ received' = received
            /\ lsPc' = "listen"
            /\ backoff' = backoff /\ fails' = fails
            /\ bMsg' = bMsg /\ bAttempted' = bAttempted /\ bTodo' = bTodo
            /\ skipped' = skipped + 1
       /\ ValidStep =>
            /\ bMsg' = Head(chan).data[2]
            /\ bSnap' = active
            /\ skipped' = skipped
            /\ active # {} => (lsPc' = "bcast" /\ bTodo' = active)]_vars

\* the undecodable payload was dropped, then event 1 began its broadcast
C13_Witness ==
    /\ skipped = 1 /\ nBad = 1 /\ backoff = 1
    /\ lsPc = "bcast" /\ bMsg = 1 /\ bSnap = {1, 2}
    /\ received[1] = << <<"attack", 1>> >>
    /\ bTodo = {2}

\* C14: the listener is always subscribing, subscribed or sleeping before a
\* retry, whatever failures, dropped messages and stream ends came before,
\* and whenever it sleeps it goes on to subscribe again.
C14_ListenerNeverTerminates ==
    /\ [](lsPc \in {"connect", "listen", "bcast", "sleep"})
    /\ (lsPc = "sleep") ~> (lsPc = "connect")

C14_Witness ==
    lsPc = "connect" /\ fails = 2 /\ backoff = 4 /\ skipped = 1 /\ nPublished = 1

\* the broadcast under way, the send it was suspended in being over, calls
\* send_json on ws
SendStep(ws) == lsPc = "bcast" /\ bCur # ws /\ bCur' = ws

\* C34: a broadcast under way calls send on no connection that has been
\* unregistered since it began. Violated: the loop goes through
\* list(self.active) as it was when the broadcast began, and a connection
\* discarded from self.active meanwhile is still in that list.
C34_NoSendAfterUnregister ==
    [][\A ws \in Conns : SendStep(ws) => ws \in active]_vars

\* the handler of connection c ends
HandlerEnds(c) == connPc[c] # "closed" /\ connPc'[c] = "closed"
Running == {c \in Conns : connPc[c] \in {"hello", "recent", "loop"}}

\* C35: a registered connection is one whose handler is running; a handler
\* that ends, at the hello send or in the receive loop, leaves its
\* connection unregistered, and leaves the registry as it is when a failed
\* broadcast had discarded the connection before.
C35_RegisteredOnlyWhileHandlerRuns ==
    /\ [](active \subseteq Running)
    /\ [][\A c \in Conns :
            HandlerEnds(c) =>
               /\ c \notin active'
               /\ active' = active \ {c}]_vars

C35_Witness ==
    /\ connPc[1] = "closed" /\ connPc[2] = "loop"
    /\ lsPc = "listen" /\ bSnap = {1, 2} /\ bFailed = {1}
    /\ Has(2, bMsg) /\ ~Has(1, bMsg)
    /\ active = {2}
    /\ received[1] = << <<"connected">> >>

\* the listener leaves a subscription, and goes to subscribe
SubscriptionEnds == lsPc \in {"listen", "bcast"} /\ lsPc' \notin {"listen", "bcast"}
SubscribeAttempt == lsPc # "connect" /\ lsPc' = "connect"

\* C36: the listener goes to subscribe again only out of its sleep, of at
\* least 1, and at the end of a subscription it goes to sleep. Violated:
\* when pubsub.listen() ends without raising, the async for is left, the
\* except clause with the sleep is not entered and while True subscribes
\* again at once.
C36_NoResubscribeWithoutWaiting ==
    [][/\ SubscribeAttempt => (lsPc = "sleep" /\ backoff >= 1)
       /\ SubscriptionEnds => lsPc' = "sleep"]_vars

\* C20: on every connection the initial_batch frame comes before every
\* attack frame (each of which a broadcast sent after the registration).
C20_InitialBatchBeforeLive ==
    \A c \in Conns : \A i, j \in 1..Len(received[c]) :
       (received[c][i][1] = "attack" /\ received[c][j][1] = "initial_batch")
          => j < i

\* --------------------------------------------------- lifespan: shutdown
\* the except clauses of the listener: `except Exception` does not catch
\* asyncio.CancelledError, which derives from BaseException
ExceptBaseException(exc) == TRUE
ExceptException(exc) == exc # "CancelledError"

\* where CancelledError, thrown into the listener at the await it is
\* suspended in, leaves it: the inner try encloses the broadcast, the outer
\* one the subscribe and the wait for a message; the sleep is in the except
\* clause itself, which no try encloses
Thrown(pc) ==
    IF pc = "bcast" /\ ExceptException("CancelledError") THEN "listen"
    ELSE IF pc \in {"connect", "listen", "bcast"} /\ ExceptException("CancelledError")
      THEN "sleep"
    ELSE "done"

\* pubsub_task.cancel(); await pubsub_task: the next step of the task is the
\* CancelledError raised at its await
lifespan_cancel ==
    /\ shutPc = "serving"
    /\ shutPc' = "cancelled"
    /\ cancelledAt' = lsPc
    /\ lsPc' = Thrown(lsPc)
    /\ UNCHANGED schedulerRunning
    /\ UNCHANGED <<active, connPc, received, backoff, chan, nPublished, bMsg,
                   bTodo, bDead, bSnap, bAttempted, bFailed, bCur, slow,
                   fails, skipped, nBad>>
    /\ UNCHANGED <<storeVars, recentVars, jobVars, pureVars>>

\* the task is done: await pubsub_task raises CancelledError, which is
\* passed; stop_scheduler(): scheduler.shutdown(wait=False) returns without
\* waiting for the runs in progress
lifespan_stop_scheduler ==
    /\ shutPc = "cancelled"
    /\ lsPc = "done"
    /\ shutPc' = "stopped"
    /\ schedulerRunning' = FALSE
    /\ UNCHANGED cancelledAt
    /\ UNCHANGED <<storeVars, recentVars, fanVars, jobVars, pureVars>>

\* -------------------------------------------------------------- scheduler
\* the ids start_scheduler registers
Jobs == {"ingest_abuseipdb", "ingest_cloudflare", "midnight_reset"}

\* max_instances: 1 where add_job gives it, and the scheduler's default of 1
\* where it does not
MaxInstancesTwo(j) == 2
MaxInstancesNone(j) == 0
MaxInstances(j) == 1

\* the executor submits a run of job j unless max_instances runs of that job
\* are in progress: the runs are coroutines on the event loop, and a run
\* suspended in an await holds up no other job
NoRunInProgress(run, j) == \A k \in Jobs : run[k] = 0
HasFreeInstance(run, j) == run[j] < MaxInstances(j)

\* how fetch_abuseipdb_blacklist can end: the key is not set; raise_for_status
\* raises HTTPStatusError; the request raises RequestError (timeouts
\* included); response.json() raises on a body that is not JSON; the data
FetchOutcomes == {"no_key", "http_status", "request_error", "bad_body", "ok"}

\* except httpx.HTTPStatusError / except httpx.RequestError: what neither
\* clause catches leaves fetch_abuseipdb_blacklist and the job
FetchRaises(outcome) == outcome = "bad_body"

\* ------------------------------------------------------------- normalizer
\* what a field of a raw record can hold besides a number (all numbers of
\* the feed are >= 0): null (Nil), no such key, a string that is no number
Absent == -2
NaN == -3
\* None in a field that holds text
None == "None"

\* confidence_to_severity
confidence_to_severity_above(score) ==
    IF score > 95 THEN "Critical"
    ELSE IF score > 85 THEN "High"
    ELSE IF score > 75 THEN "Medium"
    ELSE "Low"
confidence_to_severity(score) ==
    IF score >= 95 THEN "Critical"
    ELSE IF score >= 85 THEN "High"
    ELSE IF score >= 75 THEN "Medium"
    ELSE "Low"

\* schemas.attack
ATTACK_TYPES == {"SYN Flood", "UDP Flood", "HTTP Flood", "DNS Amplification",
                 "NTP Amplification", "ICMP Flood", "Volumetric", "Botnet-Driven"}
SEVERITY_LEVELS == {"Critical", "High", "Medium", "Low"}

ABUSEIPDB_CATEGORY_MAP ==
    (4 :> "Volumetric") @@ (14 :> "SYN Flood") @@ (18 :> "HTTP Flood") @@
    (21 :> "HTTP Flood") @@ (19 :> "Botnet-Driven") @@ (20 :> "Botnet-Driven")

\* map_categories_to_attack_type: the first category with an entry decides
RECURSIVE map_categories_last_match(_)
map_categories_last_match(categories) ==
    IF categories = <<>> THEN "Volumetric"
    ELSE IF categories[Len(categories)] \in DOMAIN ABUSEIPDB_CATEGORY_MAP
           THEN ABUSEIPDB_CATEGORY_MAP[categories[Len(categories)]]
           ELSE map_categories_last_match(SubSeq(categories, 1, Len(categories) - 1))
RECURSIVE map_categories_to_attack_type(_)
map_categories_to_attack_type(categories) ==
    IF categories = <<>> THEN "Volumetric"
    ELSE IF Head(categories) \in DOMAIN ABUSEIPDB_CATEGORY_MAP
           THEN ABUSEIPDB_CATEGORY_MAP[Head(categories)]
           ELSE map_categories_to_attack_type(Tail(categories))

\* Attack.hash_ip: hashlib.sha256(ip.encode()).hexdigest()
SHA256 ==
    ("1.2.3.4" :> "6694f83c9f476da31f5df6bcc520034e7e57d421d247b9d34f49edbfc84a764c") @@
    ("5.6.7.8" :> "0a29e59e77d5d5075f338cd08811a0cd30ecedba78792f1dbd47dcb267ced630")
hash_ip_plain(ip) == ip
hash_ip(ip) == SHA256[ip]

\* entry.get("countryCode") or source_country, source_country being None
CountryOf(entry) == entry.countryCode

\* int(entry.get("totalReports", 1))
ReportCount(entry) == IF entry.totalReports = Absent THEN 1 ELSE entry.totalReports

\* int() raises on null (TypeError) and on a string that is no number
\* (ValueError)
EntryRaises(entry) == entry.totalReports \in {Nil, NaN}

\* entry.get("abuseConfidenceScore", 0) >= 80: a missing score counts as 0;
\* null and a string raise TypeError on the comparison
ScoreOf(entry) ==
    IF entry.abuseConfidenceScore = Absent THEN 0 ELSE entry.abuseConfidenceScore
FilterRaises(entry) == entry.abuseConfidenceScore \in {Nil, NaN}
PassesAbove(entry) == ~FilterRaises(entry) /\ ScoreOf(entry) > 80
Passes(entry) == ~FilterRaises(entry) /\ ScoreOf(entry) >= 80

\* the id normalization gives the event of entry n in run number run
\* (uuid4: an id no other event has)
EventId(run, n) == run * 10 + n

\* normalize_abuseipdb_entry, for an entry it does not raise on
normalize_abuseipdb_entry(entry, id) ==
    [id |-> id,
     source_ip_hash |-> hash_ip(entry.ipAddress),
     source_country |-> CountryOf(entry),
     source_lat |-> Nil,
     source_lng |-> Nil,
     target_country |-> None,
     target_lat |-> Nil,
     target_lng |-> Nil,
     attack_type |-> map_categories_to_attack_type(entry.categories),
     severity |-> confidence_to_severity(ScoreOf(entry)),
     confidence_score |-> ScoreOf(entry),
     raw_report_count |-> ReportCount(entry),
     data_source |-> "abuseipdb",
     protocol |-> None,
     volume_bps |-> Nil]

\* normalize_abuseipdb_response: the list comprehension raises when the
\* filter or the normalization of an entry that passed it raises
NormalizeRaises(raw_response) ==
    \E n \in 1..Len(raw_response) :
       \/ FilterRaises(raw_response[n])
       \/ Passes(raw_response[n]) /\ EntryRaises(raw_response[n])

\* else it is the events of the entries scoring at least 80, in order
RECURSIVE NormalizeFrom(_, _, _)
NormalizeFrom(entries, n, run) ==
    IF n > Len(entries) THEN <<>>
    ELSE (IF Passes(entries[n])
            THEN <<normalize_abuseipdb_entry(entries[n], EventId(run, n))>>
            ELSE <<>>)
           \o NormalizeFrom(entries, n + 1, run)

normalize_abuseipdb_response(raw_response, run) == NormalizeFrom(raw_response, 1, run)

\* the raw records of the responses a run of the job fetches
IPs == {"1.2.3.4", "5.6.7.8"}
Scores == {79, 80, Nil}
JobEntry(ip, score) ==
    [ipAddress |-> ip, abuseConfidenceScore |-> score,
     countryCode |-> "CN", totalReports |-> 45, categories |-> <<14>>]
JobEntries == {JobEntry(ip, score) : ip \in IPs, score \in Scores}
RawResponses == UNION {[1..k -> JobEntries] : k \in 0..MaxBatch}

\* ------------------------------------------------------------ pure calls
\* confidence_to_severity(score) is called and returns
ScoreRange == 0..100
confidence_to_severity_call ==
    /\ sevOut = None
    /\ sevOut' = confidence_to_severity(sevIn)
    /\ UNCHANGED <<sevIn, catIn, catOut, nzIn, nzOut, geoIn, geoOut>>
    /\ UNCHANGED <<storeVars, recentVars, fanVars, jobVars, lifeVars>>

\* map_categories_to_attack_type(categories) is called and returns
CategoryCodes == {4, 14, 15, 18, 19, 20, 21, 22}
CategoryLists == UNION {[1..k -> CategoryCodes] : k \in 0..MaxCats}
map_categories_to_attack_type_call ==
    /\ catOut = None
    /\ catOut' = map_categories_to_attack_type(catIn)
    /\ UNCHANGED <<sevIn, sevOut, catIn, nzIn, nzOut, geoIn, geoOut>>
    /\ UNCHANGED <<storeVars, recentVars, fanVars, jobVars, lifeVars>>

\* normalize_abuseipdb_response(raw_response) is called and returns a list
\* or raises
ScoreValues == {Absent, Nil, NaN, 79, 80, 95}
ReportValues == {Absent, Nil, NaN, 45}
Entries ==
    [ipAddress : IPs, abuseConfidenceScore : ScoreValues, countryCode : {"CN"},
     totalReports : ReportValues, categories : {<<14>>}]
Responses == UNION {[1..k -> Entries] : k \in 0..MaxBatch}
NotCalled == [status |-> "none", events |-> <<>>]
normalize_abuseipdb_response_call ==
    /\ nzOut = NotCalled
    /\ nzOut' = IF NormalizeRaises(nzIn)
                  THEN [status |-> "raised", events |-> <<>>]
                  ELSE [status |-> "returned",
                        events |-> normalize_abuseipdb_response(nzIn, 0)]
    /\ UNCHANGED <<sevIn, sevOut, catIn, catOut, nzIn, geoIn, geoOut>>
    /\ UNCHANGED <<storeVars, recentVars, fanVars, jobVars, lifeVars>>

\* ------------------------------------------------------------------ geoip
\* _COUNTRY_COORDS: the entries of country_coords.json, of which one is
\* enough here
_COUNTRY_COORDS == ("CN" :> [name |-> "China", lat |-> 35, lng |-> 105])

\* str.upper
Upper(code) == IF code = "cn" THEN "CN" ELSE code

\* get_coords_for_country: <<lat, lng>>, Nil for None
get_coords_for_country(country_code) ==
    IF country_code = None THEN <<Nil, Nil>>
    ELSE IF Upper(country_code) \notin DOMAIN _COUNTRY_COORDS THEN <<Nil, Nil>>
    ELSE <<_COUNTRY_COORDS[Upper(country_code)].lat,
           _COUNTRY_COORDS[Upper(country_code)].lng>>

\* python truthiness of a coordinate: None and 0 are false
TruthyCoord(coord) == coord # Nil /\ coord # 0

\* enrich_attack_with_geo
enrich_attack_with_geo(attack) ==
    LET src == attack.source_country
        tgt == attack.target_country
        a1 == IF src # None /\ ~TruthyCoord(attack.source_lat)
                THEN [attack EXCEPT !.source_lat = get_coords_for_country(src)[1],
                                    !.source_lng = get_coords_for_country(src)[2]]
                ELSE attack
    IN  IF tgt # None /\ ~TruthyCoord(a1.target_lat)
          THEN [a1 EXCEPT !.target_lat = get_coords_for_country(tgt)[1],
                          !.target_lng = get_coords_for_country(tgt)[2]]
          ELSE a1

\* the attacks of a pure call: a normalized event with its region codes and
\* coordinates over their cases
GeoAttacks ==
    {[normalize_abuseipdb_entry(JobEntry("1.2.3.4", 80), 0) EXCEPT
         !.source_country = sc, !.source_lat = slat, !.source_lng = slng,
         !.target_country = tc, !.target_lat = tlat, !.target_lng = tlng] :
       sc \in {"CN", "cn", "ZZ", None}, slat \in {Nil, 0, 12}, slng \in {Nil, 0, 34},
       tc \in {"CN", None}, tlat \in {Nil, 56}, tlng \in {Nil, 78}}

\* enrich_attack_with_geo(attack) is called and returns
enrich_attack_with_geo_call ==
    /\ geoOut = <<>>
    /\ geoOut' = <<enrich_attack_with_geo(geoIn)>>
    /\ UNCHANGED <<sevIn, sevOut, catIn, catOut, nzIn, nzOut, geoIn>>
    /\ UNCHANGED <<storeVars, recentVars, fanVars, jobVars, lifeVars>>

\* for attack in attacks: the attack of the i-th iteration
AttackAtReversed(list, i) == list[Len(list) + 1 - i]
AttackAt(list, i) == list[i]

\* a time of the job's trigger has come, the scheduler running: the executor
\* begins a run unless max_instances runs of the job are in progress, in
\* which case the firing is dropped; the trigger's next time is computed
\* either way
scheduler_fire(j) ==
    /\ schedulerRunning
    /\ due[j] < MaxFire
    /\ due' = [due EXCEPT ![j] = @ + 1]
    /\ IF HasFreeInstance(running, j)
         THEN /\ running' = [running EXCEPT ![j] = @ + 1]
              /\ started' = [started EXCEPT ![j] = @ + 1]
              /\ IF j = "ingest_abuseipdb"
                   THEN /\ ingPc' = "fetch"
                        /\ attacks' = <<>>
                        /\ idx' = 0
                        /\ opLog' = <<>>
                        /\ fetched' = "none"
                        /\ raised' = FALSE
                        /\ raw' = <<>>
                   ELSE UNCHANGED <<ingPc, attacks, idx, opLog, fetched, raised, raw>>
              /\ IF j = "midnight_reset"
                   THEN resetPc' = "get" /\ resetVal' = Nil
                   ELSE UNCHANGED <<resetPc, resetVal>>
         ELSE UNCHANGED <<running, started, ingPc, attacks, idx, opLog,
                          fetched, raised, raw, resetPc, resetVal>>
    /\ UNCHANGED missed
    /\ UNCHANGED <<storeVars, recentVars, fanVars>>
    /\ UNCHANGED notJob

\* --------------------------------------------------- job_ingest_abuseipdb
\* raw = await fetch_abuseipdb_blacklist(); if not raw: return;
\* attacks = normalize_abuseipdb_response(raw), which is outside any try;
\* if not attacks: return; else the loop begins with the first push
job_ingest_abuseipdb_fetch(outcome, data) ==
    /\ ingPc = "fetch"
    /\ fetched' = outcome
    /\ raw' = IF outcome = "ok" THEN data ELSE <<>>
    /\ IF outcome = "ok" /\ ~NormalizeRaises(data)
            /\ normalize_abuseipdb_response(data, started["ingest_abuseipdb"]) # <<>>
         THEN /\ attacks' = normalize_abuseipdb_response(data, started["ingest_abuseipdb"])
              /\ idx' = 1
              /\ ingPc' = "push"
              /\ UNCHANGED <<running, raised>>
         ELSE /\ ingPc' = "idle"
              /\ raised' = (FetchRaises(outcome) \/ (outcome = "ok" /\ NormalizeRaises(data)))
              /\ running' = [running EXCEPT !["ingest_abuseipdb"] = @ - 1]
              /\ UNCHANGED <<attacks, idx>>
    /\ UNCHANGED <<due, started, opLog, missed, resetPc, resetVal>>
    /\ UNCHANGED <<storeVars, recentVars, fanVars>>
    /\ UNCHANGED notJob

\* whether the for loop goes on to attack i + 1 of n after an iteration
\* whose last call returned (ok) or raised into the except clause
LoopStopsOnError(i, n, ok) == ok /\ i < n
LoopGoesOn(i, n, ok) == i < n

\* the iteration is over, by its last call or by the except clause: on to
\* the next attack, or out of the loop and the job
NextAttack(ok) ==
    IF LoopGoesOn(idx, Len(attacks), ok)
      THEN /\ idx' = idx + 1
           /\ ingPc' = "push"
           /\ UNCHANGED running
      ELSE /\ idx' = idx
           /\ ingPc' = "idle"
           /\ running' = [running EXCEPT !["ingest_abuseipdb"] = @ - 1]

\* the three calls of an iteration are in one try: a call that raises
\* leaves it for the except clause, and the calls after it are not made
RestOfTryRuns(ok) == FALSE
RestOfTrySkipped(ok) == ~ok

\* await push_recent_attack(attack_str) returns or raises
job_ingest_abuseipdb_push(ok) ==
    /\ ingPc = "push"
    /\ LET attack == AttackAt(attacks, idx) IN
         /\ opLog' = Append(opLog, <<attack, "push", ok>>)
         /\ attacks_recent' = IF ok THEN PushPipeline(attacks_recent, Dumps(attack))
                                    ELSE attacks_recent
         /\ IF RestOfTrySkipped(ok)
              THEN NextAttack(ok)
              ELSE /\ ingPc' = "publish"
                   /\ UNCHANGED <<idx, running>>
    /\ UNCHANGED <<nPushed, sinceExpiry, getLimit, getRes>>
    /\ UNCHANGED <<due, started, attacks, fetched, raised, raw, missed, resetPc,
                   resetVal>>
    /\ UNCHANGED <<storeVars, fanVars>>
    /\ UNCHANGED notJob

\* await publish_attack(attack) returns or raises: PUBLISH reaches the
\* subscriptions open at that moment and is kept for none
job_ingest_abuseipdb_publish(ok) ==
    /\ ingPc = "publish"
    /\ LET attack == AttackAt(attacks, idx) IN
         /\ opLog' = Append(opLog, <<attack, "publish", ok>>)
         /\ chan' = IF ok /\ Subscribed
                      THEN Append(chan, [type |-> "message", data |-> Dumps(attack)])
                      ELSE chan
         /\ missed' = IF ok /\ ~Subscribed THEN missed \cup {attack} ELSE missed
         /\ IF RestOfTrySkipped(ok)
              THEN NextAttack(ok)
              ELSE /\ ingPc' = "incr"
                   /\ UNCHANGED <<idx, running>>
    /\ UNCHANGED <<active, connPc, received, lsPc, backoff, nPublished, bMsg,
                   bTodo, bDead, bSnap, bAttempted, bFailed, bCur, slow,
                   fails, skipped, nBad>>
    /\ UNCHANGED <<due, started, attacks, fetched, raised, raw, resetPc, resetVal>>
    /\ UNCHANGED <<storeVars, recentVars>>
    /\ UNCHANGED notJob

\* await increment_today_counter(1) returns or raises; the iteration ends
job_ingest_abuseipdb_increment(ok) ==
    /\ ingPc = "incr"
    /\ LET attack == AttackAt(attacks, idx) IN
         opLog' = Append(opLog, <<attack, "incr", ok>>)
    /\ counter_today' = IF ok THEN IncrBy(counter_today, 1) ELSE counter_today
    /\ NextAttack(ok)
    /\ UNCHANGED <<counter_yesterday, yExpired, incPc, incAmt, incRet, incAfter,
                   rotPc, rotVal, firstStored, firstTotal, lastGet>>
    /\ UNCHANGED <<due, started, attacks, fetched, raised, raw, missed, resetPc,
                   resetVal>>
    /\ UNCHANGED <<recentVars, fanVars>>
    /\ UNCHANGED notJob

\* -------------------------------------------------- job_ingest_cloudflare
\* data = await fetch_ddos_summary() returns; the job logs and returns
job_ingest_cloudflare ==
    /\ running["ingest_cloudflare"] >= 1
    /\ running' = [running EXCEPT !["ingest_cloudflare"] = @ - 1]
    /\ UNCHANGED <<due, started, ingPc, attacks, idx, opLog, fetched, raised,
                   raw, missed, resetPc, resetVal>>
    /\ UNCHANGED <<storeVars, recentVars, fanVars>>
    /\ UNCHANGED notJob

\* ----------------------------------------------------- job_midnight_reset
\* await rotate_day_counter(): its GET
job_midnight_reset_get ==
    /\ resetPc = "get"
    /\ resetVal' = counter_today
    /\ resetPc' = "exec"
    /\ UNCHANGED <<due, started, running, ingPc, attacks, idx, opLog, fetched,
                   raised, raw, missed>>
    /\ UNCHANGED <<storeVars, recentVars, fanVars>>
    /\ UNCHANGED notJob

\* its MULTI / [SETEX] / DEL / EXEC; the job returns
job_midnight_reset_execute ==
    /\ resetPc = "exec"
    /\ counter_yesterday' = RotateSet(resetVal, counter_yesterday)
    /\ counter_today' = Nil
    /\ resetPc' = "idle"
    /\ running' = [running EXCEPT !["midnight_reset"] = @ - 1]
    /\ UNCHANGED <<yExpired, incPc, incAmt, incRet, incAfter, rotPc, rotVal,
                   firstStored, firstTotal, lastGet>>
    /\ UNCHANGED <<due, started, ingPc, attacks, idx, opLog, fetched, raised,
                   raw, missed, resetVal>>
    /\ UNCHANGED <<recentVars, fanVars>>
    /\ UNCHANGED notJob

\* ------------------------------------------------- scheduler: the claims
FireStep(j) == due'[j] = due[j] + 1

\* C15: no job has two runs in progress; a firing that comes due while a run
\* of the job is in progress begins no run, and a run begins only at a
\* firing, so a dropped firing is not made up for when the run returns.
C15_SingleFlight ==
    /\ [](\A j \in Jobs : running[j] <= 1)
    /\ [][\A j \in Jobs :
            /\ (FireStep(j) /\ running[j] >= 1) =>
                  (started'[j] = started[j] /\ running'[j] = running[j])
            /\ (started'[j] # started[j]) =>
                  (FireStep(j) /\ running[j] = 0 /\ started'[j] = started[j] + 1)]_vars

C15_Witness == \A j \in Jobs : due[j] = 2 /\ started[j] = 1 /\ running[j] = 0

Suspended == ingPc \in {"fetch", "push", "publish", "incr"}

\* C31: a firing of a job with no run of its own in progress begins a run,
\* whatever runs of the other jobs are in progress: while a run of the
\* feed-ingest job is suspended, the firings of the other ingest job and of
\* the rotation begin their runs.
C31_SlowRunBlocksNoOtherJob ==
    [][\A j \in Jobs :
          (FireStep(j) /\ running[j] = 0)
             => (started'[j] = started[j] + 1 /\ running'[j] = 1)]_vars

C31_Witness ==
    /\ Suspended /\ ingPc = "fetch" /\ started["ingest_abuseipdb"] = 1
    /\ running["ingest_cloudflare"] = 1 /\ started["ingest_cloudflare"] = 2
    /\ resetPc = "exec" /\ started["midnight_reset"] = 1

\* C17: a run whose fetch failed, whatever the failure, is over, has called
\* the store for nothing and has raised nothing; no run of the job is left in
\* progress, so its next firing begins one.
C17_FetchFailureEndsCleanly ==
    fetched \notin {"none", "ok"} =>
       /\ ingPc = "idle"
       /\ opLog = <<>>
       /\ ~raised
       /\ running["ingest_abuseipdb"] = 0

Called(e, call) == \E k \in 1..Len(opLog) : opLog[k][1] = e /\ opLog[k][2] = call
Failed(e, call) == \E k \in 1..Len(opLog) : opLog[k] = <<e, call, FALSE>>
RunOver == ingPc = "idle" /\ fetched = "ok"

\* C18: once a run is over, every event of its batch has had its history
\* push called, and an event whose push raised has still had its publish and
\* its counter increment called.
C18_PushAndIncrementIndependent ==
    RunOver => \A i \in 1..Len(attacks) :
       /\ Called(attacks[i], "push")
       /\ Failed(attacks[i], "push") =>
             (Called(attacks[i], "publish") /\ Called(attacks[i], "incr"))

IsPublished(r) == r[2] = "publish" /\ r[3]
Published == SelectSeq(opLog, IsPublished)
PosIn(list, e) == CHOOSE i \in 1..Len(list) : list[i] = e

\* C19: the store calls of a run follow the batch: a call for an event is
\* never made after a call for a later event of the batch, so the events
\* published are published one after the other in the order of the batch.
C19_PublishedInBatchOrder ==
    /\ \A p, q \in 1..Len(opLog) :
          p < q => PosIn(attacks, opLog[p][1]) <= PosIn(attacks, opLog[q][1])
    /\ \A p, q \in 1..Len(Published) :
          p < q => PosIn(attacks, Published[p][1]) < PosIn(attacks, Published[q][1])

C19_Witness ==
    /\ RunOver /\ Len(attacks) >= 2 /\ Len(Published) = Len(attacks)
    /\ \A i \in 1..Len(attacks) : Published[i][1] = attacks[i]

\* --------------------------------------------- order of the store calls
\* the calls of the current run that were made, and those that returned
CallsMade(call) == {k \in 1..Len(opLog) : opLog[k][2] = call}
CallsReturned(call) == {k \in CallsMade(call) : opLog[k][3]}

\* C32: in every state of a run the increments are at most as many as the
\* publishes, and these at most as many as the history pushes, counting the
\* calls made and counting those that returned; a call is made for an event
\* only after the call before it returned for that event, so a published
\* event was pushed before, and after a call raised for an event no further
\* call is made for it.
C32_PushThenPublishThenCount ==
    /\ Cardinality(CallsMade("incr")) <= Cardinality(CallsMade("publish"))
    /\ Cardinality(CallsMade("publish")) <= Cardinality(CallsMade("push"))
    /\ Cardinality(CallsReturned("incr")) <= Cardinality(CallsReturned("publish"))
    /\ Cardinality(CallsReturned("publish")) <= Cardinality(CallsReturned("push"))
    /\ \A k \in CallsMade("publish") :
          \E m \in 1..(k - 1) : opLog[m] = <<opLog[k][1], "push", TRUE>>
    /\ \A k \in CallsMade("incr") :
          \E m \in 1..(k - 1) : opLog[m] = <<opLog[k][1], "publish", TRUE>>
    /\ \A k \in 1..Len(opLog) :
          ~opLog[k][3] => \A m \in (k + 1)..Len(opLog) : opLog[m][1] # opLog[k][1]

C32_Witness ==
    /\ ingPc = "idle" /\ Len(attacks) = 2
    /\ Cardinality(CallsReturned("push")) = 2
    /\ Cardinality(CallsMade("publish")) = 2
    /\ Cardinality(CallsReturned("publish")) = 1
    /\ Cardinality(CallsMade("incr")) = 1
    /\ opLog[Len(opLog)] = <<attacks[2], "publish", FALSE>>

\* ------------------------------------------------ normalizer: the claims
\* C22: confidence_to_severity returns Critical for every score of at least
\* 95, High for 85..94, Medium for 75..84 and Low below 75: each of 95, 85
\* and 75 falls in the higher tier.
C22_SeverityThresholds ==
    sevOut # None =>
       /\ sevIn >= 95 => sevOut = "Critical"
       /\ sevIn \in 85..94 => sevOut = "High"
       /\ sevIn \in 75..84 => sevOut = "Medium"
       /\ sevIn < 75 => sevOut = "Low"

C22_Witness ==
    \/ sevIn = 95 /\ sevOut = "Critical"
    \/ sevIn = 85 /\ sevOut = "High"
    \/ sevIn = 75 /\ sevOut = "Medium"

\* a raw record whose confidence is a number of at least 80
Qualifies(rec) == rec.abuseConfidenceScore \in 80..100
QualifyingIn(response) == {n \in 1..Len(response) : Qualifies(response[n])}

\* C23: a normalization that returns (every confidence of the response is a
\* number or missing) returns one event for each record with confidence of
\* at least 80 and none for the others, in the order of the records; a
\* record below 80 raises nothing.
C23_OneEventPerQualifyingRecord ==
    nzOut.status = "returned" =>
       /\ Len(nzOut.events) = Cardinality(QualifyingIn(nzIn))
       /\ {nzOut.events[k].id : k \in 1..Len(nzOut.events)} = QualifyingIn(nzIn)
       /\ \A k, m \in 1..Len(nzOut.events) :
             k < m => nzOut.events[k].id < nzOut.events[m].id
       /\ \A k \in 1..Len(nzOut.events) :
             nzOut.events[k].confidence_score = nzIn[nzOut.events[k].id].abuseConfidenceScore

C23_Witness ==
    /\ Len(nzIn) = 2
    /\ nzIn[1].abuseConfidenceScore = 79 /\ nzIn[2].abuseConfidenceScore = 80
    /\ nzOut.status = "returned"
    /\ Len(nzOut.events) = 1 /\ nzOut.events[1].id = 2

\* the codes of a list that the table has an entry for
Matching(list) == {i \in 1..Len(list) : list[i] \in DOMAIN ABUSEIPDB_CATEGORY_MAP}
FirstMatching(list) == CHOOSE i \in Matching(list) : \A k \in Matching(list) : i <= k

\* C24: map_categories_to_attack_type returns what the table gives the first
\* code of the list that it has an entry for, "Volumetric" when it has an
\* entry for none, and in every case one of the eight attack types.
C24_FirstMatchWins ==
    catOut # None =>
       /\ catOut \in ATTACK_TYPES
       /\ Matching(catIn) = {} => catOut = "Volumetric"
       /\ Matching(catIn) # {} =>
             catOut = ABUSEIPDB_CATEGORY_MAP[catIn[FirstMatching(catIn)]]

C24_Witness ==
    /\ Len(catIn) = 2
    /\ Matching(catIn) = {1, 2}
    /\ ABUSEIPDB_CATEGORY_MAP[catIn[1]] # ABUSEIPDB_CATEGORY_MAP[catIn[2]]
    /\ catOut = ABUSEIPDB_CATEGORY_MAP[catIn[1]]

\* the events the current run has pushed to the history list or published,
\* and the raw record of each
Handed == {opLog[k][1] : k \in {m \in 1..Len(opLog) :
                                  opLog[m][2] \in {"push", "publish"} /\ opLog[m][3]}}
RawOf(e) == raw[e.id % 10]
TextFields == {"source_ip_hash", "source_country", "target_country", "attack_type",
               "severity", "data_source", "protocol"}

\* C25: no event handed to the history list or the channel holds the
\* ipAddress of its raw record in a field; it holds the SHA-256 digest of
\* it, so two events of equal ipAddress hold the same source_ip_hash.
C25_RawIdentifierNeverLeaves ==
    /\ \A e \in Handed :
          /\ \A f \in TextFields : e[f] # RawOf(e).ipAddress
          /\ e.source_ip_hash = SHA256[RawOf(e).ipAddress]
    /\ \A e1, e2 \in Handed :
          RawOf(e1).ipAddress = RawOf(e2).ipAddress
             => e1.source_ip_hash = e2.source_ip_hash

C25_Witness ==
    /\ Len(attacks) = 2 /\ ingPc = "idle"
    /\ RawOf(attacks[1]).ipAddress = RawOf(attacks[2]).ipAddress
    /\ attacks[1].source_ip_hash = attacks[2].source_ip_hash
    /\ Handed = {attacks[1], attacks[2]}
    /\ \A i \in 1..2 : Dumps(attacks[i]) \in {attacks_recent[k] : k \in 1..Len(attacks_recent)}

\* the call was made for the event and returned
Done(e, call) == \E k \in 1..Len(opLog) : opLog[k] = <<e, call, TRUE>>

\* C27: every event a run has pushed to the history list or published whose
\* source_country the table has an entry for holds the entry's lat and lng
\* as source_lat and source_lng. Violated: the job hands the events to
\* the store as normalization returned them, with both unset.
C27_PublishedEventsEnriched ==
    \A i \in 1..Len(attacks) :
       (/\ Done(attacks[i], "push") \/ Done(attacks[i], "publish")
        /\ attacks[i].source_country \in DOMAIN _COUNTRY_COORDS)
          => /\ attacks[i].source_lat = _COUNTRY_COORDS[attacks[i].source_country].lat
             /\ attacks[i].source_lng = _COUNTRY_COORDS[attacks[i].source_country].lng

Coordinates == {"source_lat", "source_lng", "target_lat", "target_lng"}
HasEntry(code) == code # None /\ Upper(code) \in DOMAIN _COUNTRY_COORDS

\* C28: after enrich_attack_with_geo, a coordinate that was set (0
\* included) is as it was, every other field is as it was, and the attack
\* as a whole is as it was when the table has an entry for neither of its
\* country codes. Violated: a latitude of 0 counts as unset, and the
\* longitude is assigned whenever the latitude is, to None where the table
\* has no entry.
C28_EnrichmentOnlyFillsUnset ==
    geoOut # <<>> =>
       /\ \A f \in Coordinates : geoIn[f] # Nil => geoOut[1][f] = geoIn[f]
       /\ \A f \in DOMAIN geoIn \ Coordinates : geoOut[1][f] = geoIn[f]
       /\ (~HasEntry(geoIn.source_country) /\ ~HasEntry(geoIn.target_country))
             => geoOut[1] = geoIn

\* C29: a run that has entered its loop calls the history push for every
\* event of the batch, whichever calls raised, and ends without raising;
\* after the call that raised for an event, the loop is at the next event.
C29_FailureDoesNotAbortBatch ==
    /\ [](ingPc = "idle" /\ opLog # <<>>
            => /\ \A i \in 1..Len(attacks) : Called(attacks[i], "push")
               /\ ~raised
               /\ running["ingest_abuseipdb"] = 0)
    /\ [][(/\ Len(opLog') = Len(opLog) + 1
           /\ ~opLog'[Len(opLog')][3]
           /\ idx < Len(attacks))
             => (ingPc' = "push" /\ idx' = idx + 1 /\ ~raised')]_vars

C29_Witness ==
    /\ ingPc = "idle" /\ Len(attacks) = 2 /\ ~raised
    /\ Failed(attacks[1], "push")
    /\ Done(attacks[2], "push") /\ Done(attacks[2], "publish") /\ Done(attacks[2], "incr")

\* C30: a run whose fetch returned records ends without raising and has
\* published every record whose confidence is a number of at least 80,
\* whatever the other records hold. Violated: a confidence of null makes the
\* comparison with 80 raise, out of the normalization and out of the job.
C30_MalformedRecordSkipped ==
    (ingPc = "idle" /\ fetched = "ok") =>
       /\ ~raised
       /\ \A n \in QualifyingIn(raw) :
             \E i \in 1..Len(attacks) : attacks[i].id % 10 = n /\ Called(attacks[i], "publish")

\* --------------------------------------------------- no replay: the claim
\* the connections that were sent the event in a broadcast
SentLive(e) == {c \in Conns : \E k \in 1..Len(received[c]) : received[c][k] = <<"attack", e>>}
InHistory(e) == \E k \in 1..Len(attacks_recent) : attacks_recent[k] = Dumps(e)

\* C26: an event published while the listener held no subscription is
\* never sent to a connection by a broadcast, whatever the listener does
\* afterwards; it is in the history list all the same, and once its run is
\* over the counter has been incremented for it as for the others.
C26_NoReplayOfMissedEvents ==
    /\ \A e \in missed : SentLive(e) = {} /\ InHistory(e)
    /\ ingPc = "idle" => GetToday >= Cardinality(missed)

C26_Witness ==
    \E e \in missed, c \in active :
       /\ lsPc = "listen" /\ chan = <<>> /\ ingPc = "idle"
       /\ SentLive(e) = {} /\ InHistory(e) /\ GetToday = 2
       /\ \E e2 \in {attacks[i] : i \in 1..Len(attacks)} \ missed :
             e2.id < e.id /\ c \in SentLive(e2)

\* ----------------------------------------------------- shutdown: the claim
\* what the listener does: its position, its backoff, the frames it
\* broadcasts
ListenerDoes == <<lsPc, backoff, received, bMsg, bCur, bTodo, fails, skipped>>

\* C21: once lifespan has cancelled the listener task, the task is over,
\* wherever it was: afterwards it subscribes, sleeps and broadcasts no more;
\* lifespan then stops the scheduler, with runs in progress or without, and
\* the stop leaves the runs in progress alone and no run begins after it.
C21_CancelTerminatesListener ==
    /\ [](shutPc # "serving" => lsPc = "done")
    /\ [][shutPc # "serving" => UNCHANGED ListenerDoes]_vars
    /\ (shutPc = "cancelled") ~> (shutPc = "stopped")
    /\ [][(shutPc = "cancelled" /\ shutPc' = "stopped") => running' = running]_vars
    /\ [](shutPc = "stopped" => ~schedulerRunning)
    /\ [][~schedulerRunning => started' = started]_vars

C21_Witness ==
    /\ shutPc = "stopped" /\ lsPc = "done"
    /\ cancelledAt = "sleep"
    /\ running["ingest_cloudflare"] = 1

\* ------------------------------------------------ at least once: the claim
\* the events the current run has published, the connection's initial batch
PublishedEvents == {opLog[k][1] : k \in CallsReturned("publish")}
PushedEvents == {opLog[k][1] : k \in CallsReturned("push")}
InBatch(c, e) ==
    \E k \in 1..Len(received[c]) :
       /\ received[c][k][1] = "initial_batch"
       /\ \E i \in 1..Len(received[c][k][2]) : received[c][k][2][i] = e
\* the listener has taken up all that was published to its subscription
Quiet == lsPc = "listen" /\ chan = <<>>

\* C33: with sends that succeed, a connection in its receive loop has been
\* sent, once the listener has taken up what was published, every event the
\* run published to the subscription: in a broadcast if it was published
\* after the registration, and in the initial batch if it was pushed before
\* the batch was read; it has some of them both ways and none of them
\* neither way. The initial batch holds what the history list held when it
\* was read.
C33_NoEventMissed ==
    /\ [](\A c \in Conns :
            (connPc[c] = "loop" /\ Quiet) =>
               \A e \in PublishedEvents \ missed : Has(c, e) \/ InBatch(c, e))
    /\ [][\A c \in Conns :
            (connPc[c] = "recent" /\ connPc'[c] = "loop" /\ attacks_recent # <<>>)
               => \A k \in 1..Len(attacks_recent) : InBatch(c, Loads(attacks_recent[k]))']_vars

C33_Witness ==
    /\ connPc[1] = "loop" /\ Quiet /\ ingPc = "idle" /\ Len(attacks) = 2
    /\ PublishedEvents = {attacks[1], attacks[2]} /\ missed = {}
    /\ Has(1, attacks[1]) /\ InBatch(1, attacks[1])
    /\ Has(1, attacks[2]) /\ ~InBatch(1, attacks[2])

\* ------------------------------------------------------------------ specs
InitStore ==
    /\ counter_today = Nil
    /\ counter_yesterday = Nil
    /\ yExpired = FALSE
    /\ incPc = [c \in IncCalls |-> "idle"]
    /\ incAmt = [c \in IncCalls |-> 0]
    /\ incRet = [c \in IncCalls |-> Nil]
    /\ incAfter = [c \in IncCalls |-> FALSE]
    /\ rotPc = [r \in RotCalls |-> "idle"]
    /\ rotVal = [r \in RotCalls |-> Nil]
    /\ firstStored = Nil
    /\ firstTotal = Nil
    /\ lastGet = 0

InitRecent ==
    /\ attacks_recent = <<>>
    /\ nPushed = 0
    /\ sinceExpiry = 0
    /\ getLimit = Nil
    /\ getRes = <<>>

InitFan ==
    /\ active = {}
    /\ connPc = [c \in Conns |-> "new"]
    /\ received = [c \in Conns |-> <<>>]
    /\ lsPc = "connect"
    /\ backoff = 1
    /\ chan = <<>>
    /\ nPublished = 0
    /\ bMsg = 0
    /\ bTodo = {}
    /\ bDead = {}
    /\ bSnap = {}
    /\ bAttempted = {}
    /\ bFailed = {}
    /\ bCur = 0
    /\ slow = {}
    /\ fails = 0
    /\ skipped = 0
    /\ nBad = 0

InitJob ==
    /\ due = [j \in Jobs |-> 0]
    /\ started = [j \in Jobs |-> 0]
    /\ running = [j \in Jobs |-> 0]
    /\ ingPc = "idle"
    /\ attacks = <<>>
    /\ idx = 0
    /\ opLog = <<>>
    /\ fetched = "none"
    /\ raised = FALSE
    /\ raw = <<>>
    /\ missed = {}
    /\ resetPc = "idle"
    /\ resetVal = Nil

\* the application serving: lifespan has started the scheduler and the
\* listener task and yielded
InitLife ==
    /\ shutPc = "serving"
    /\ schedulerRunning = TRUE
    /\ cancelledAt = "none"

\* no pure call made
InitSeverity == sevIn = 0 /\ sevOut = None
InitCategories == catIn = <<>> /\ catOut = None
InitNormalize == nzIn = <<>> /\ nzOut = NotCalled
InitGeo ==
    /\ geoIn = normalize_abuseipdb_entry(JobEntry("1.2.3.4", 80), 0)
    /\ geoOut = <<>>
InitPure == InitSeverity /\ InitCategories /\ InitNormalize /\ InitGeo

Init == InitStore /\ InitRecent /\ InitFan /\ InitJob /\ InitLife /\ InitPure

NextStore ==
    \/ \E c \in IncCalls, amount \in Amounts : increment_today_counter_call(c, amount)
    \/ \E c \in IncCalls : increment_today_counter_execute(c)
    \/ \E r \in RotCalls : rotate_day_counter_get(r)
    \/ \E r \in RotCalls : rotate_day_counter_execute(r)
    \/ expire_counter_yesterday

SpecStore == Init /\ [][NextStore]_vars

NextRecent ==
    \/ \E event \in 1..MaxPush : push_recent_attack(event)
    \/ expire_attacks_recent
    \/ \E limit \in Limits : get_recent_attacks_call(limit)
    \/ get_recent_attacks_return

SpecRecent == Init /\ [][NextRecent]_vars

NextFan ==
    \/ \E c \in Conns : ws_attacks_accept(c)
    \/ \E c \in Conns, ok \in BOOLEAN : ws_attacks_hello(c, ok)
    \/ \E c \in Conns, ok \in BOOLEAN : ws_attacks_recent(c, ok)
    \/ \E c \in Conns : ws_attacks_disconnect(c)
    \/ \E event \in Msgs : publish_attack(event)
    \/ listener_subscribed
    \/ listener_message
    \/ \E ws \in Conns, ok \in BOOLEAN : broadcast_send(ws, ok)

\* the registry, the handlers and the broadcasts of a listener that stays
\* subscribed
SpecFan == Init /\ [][NextFan]_vars

NextListener ==
    \/ \E event \in Msgs : publish_attack(event)
    \/ channel_message_malformed
    \/ listener_subscribed
    \/ listener_connection_lost
    \/ listener_slept
    \/ listener_stream_end
    \/ listener_message

\* the listener and its reconnect loop, with no connection registered
SpecListener == Init /\ [][NextListener]_vars

\* asyncio runs a sleep that is due and a task that is ready
SpecListenerLive == SpecListener /\ WF_vars(listener_slept)

NextFanLive ==
    \/ \E c \in Conns : ws_attacks_accept(c)
    \/ \E c \in Conns, ok \in BOOLEAN : ws_attacks_hello(c, ok)
    \/ \E c \in Conns, ok \in BOOLEAN : ws_attacks_recent(c, ok)
    \/ \E c \in Conns : ws_attacks_disconnect(c)
    \/ \E c \in Conns : client_stalls(c)
    \/ \E event \in Msgs : publish_attack(event)
    \/ listener_subscribed
    \/ listener_message
    \/ \E ws \in Conns, ok \in BOOLEAN : broadcast_send(ws, ok)

\* the fan-out with clients that may stop reading; the listener task runs
\* whenever it is ready, and a send to a client that reads completes
SpecFanLive ==
    /\ Init /\ [][NextFanLive]_vars
    /\ WF_vars(listener_subscribed)
    /\ WF_vars(listener_message)
    /\ WF_vars(\E ws \in Conns, ok \in BOOLEAN : broadcast_send(ws, ok))

NextDecode ==
    \/ \E c \in Conns : ws_attacks_accept(c)
    \/ \E event \in Msgs : publish_attack(event)
    \/ channel_message_malformed
    \/ listener_subscribed
    \/ listener_message
    \/ \E ws \in Conns, ok \in BOOLEAN : broadcast_send(ws, ok)

\* a channel that also carries payloads that are not JSON
SpecDecode == Init /\ [][NextDecode]_vars

NextJoin ==
    \/ \E event \in 1..MaxJoinPush : push_recent_attack(event)
    \/ \E c \in Conns : ws_attacks_accept(c)
    \/ \E c \in Conns, ok \in BOOLEAN : ws_attacks_hello(c, ok)
    \/ \E c \in Conns, ok \in BOOLEAN : ws_attacks_recent(c, ok)
    \/ \E c \in Conns : ws_attacks_disconnect(c)
    \/ \E event \in Msgs : publish_attack(event)
    \/ listener_subscribed
    \/ listener_message
    \/ \E ws \in Conns, ok \in BOOLEAN : broadcast_send(ws, ok)

\* connections joining while the recent list is filled and events are
\* broadcast
SpecJoin == Init /\ [][NextJoin]_vars

NextSched ==
    \/ \E j \in Jobs : scheduler_fire(j)
    \/ \E outcome \in FetchOutcomes, data \in {r \in RawResponses : Len(r) <= 1} :
          job_ingest_abuseipdb_fetch(outcome, data)
    \/ \E ok \in BOOLEAN : job_ingest_abuseipdb_push(ok)
    \/ \E ok \in BOOLEAN : job_ingest_abuseipdb_publish(ok)
    \/ \E ok \in BOOLEAN : job_ingest_abuseipdb_increment(ok)
    \/ job_ingest_cloudflare
    \/ job_midnight_reset_get
    \/ job_midnight_reset_execute

\* the three jobs under the scheduler
SpecSched == Init /\ [][NextSched]_vars

NextIngest ==
    \/ scheduler_fire("ingest_abuseipdb")
    \/ \E outcome \in FetchOutcomes, data \in RawResponses :
          job_ingest_abuseipdb_fetch(outcome, data)
    \/ \E ok \in BOOLEAN : job_ingest_abuseipdb_push(ok)
    \/ \E ok \in BOOLEAN : job_ingest_abuseipdb_publish(ok)
    \/ \E ok \in BOOLEAN : job_ingest_abuseipdb_increment(ok)

\* the runs of the feed-ingest job
SpecIngest == Init /\ [][NextIngest]_vars

\* the pure functions, each over the inputs of its Init
NextSeverity == confidence_to_severity_call
StartSeverity ==
    /\ InitStore /\ InitRecent /\ InitFan /\ InitJob /\ InitLife
    /\ sevIn \in ScoreRange /\ sevOut = None
    /\ InitCategories /\ InitNormalize /\ InitGeo
SpecSeverity == StartSeverity /\ [][NextSeverity]_vars

NextCategories == map_categories_to_attack_type_call
StartCategories ==
    /\ InitStore /\ InitRecent /\ InitFan /\ InitJob /\ InitLife
    /\ catIn \in CategoryLists /\ catOut = None
    /\ InitSeverity /\ InitNormalize /\ InitGeo
SpecCategories == StartCategories /\ [][NextCategories]_vars

NextNormalize == normalize_abuseipdb_response_call
StartNormalize ==
    /\ InitStore /\ InitRecent /\ InitFan /\ InitJob /\ InitLife
    /\ nzIn \in Responses /\ nzOut = NotCalled
    /\ InitSeverity /\ InitCategories /\ InitGeo
SpecNormalize == StartNormalize /\ [][NextNormalize]_vars

NextGeo == enrich_attack_with_geo_call
StartGeo ==
    /\ InitStore /\ InitRecent /\ InitFan /\ InitJob /\ InitLife
    /\ geoIn \in GeoAttacks /\ geoOut = <<>>
    /\ InitSeverity /\ InitCategories /\ InitNormalize
SpecGeo == StartGeo /\ [][NextGeo]_vars

\* a response of two records that pass the filter
GoodResponses == {<<JobEntry("1.2.3.4", 80), JobEntry("5.6.7.8", 80)>>}

NextReplay ==
    \/ scheduler_fire("ingest_abuseipdb")
    \/ \E data \in GoodResponses : job_ingest_abuseipdb_fetch("ok", data)
    \/ job_ingest_abuseipdb_push(TRUE)
    \/ job_ingest_abuseipdb_publish(TRUE)
    \/ job_ingest_abuseipdb_increment(TRUE)
    \/ ws_attacks_accept(1)
    \/ listener_subscribed
    \/ listener_connection_lost
    \/ listener_slept
    \/ listener_message
    \/ broadcast_send(1, TRUE)

\* one connection, and the job publishing while the listener loses and regains its subscription
SpecReplay == Init /\ [][NextReplay]_vars

NextShutdown ==
    \/ \E event \in Msgs : publish_attack(event)
    \/ ws_attacks_accept(1)
    \/ listener_subscribed
    \/ listener_connection_lost
    \/ listener_slept
    \/ listener_message
    \/ broadcast_send(1, TRUE)
    \/ scheduler_fire("ingest_cloudflare")
    \/ job_ingest_cloudflare
    \/ lifespan_cancel
    \/ lifespan_stop_scheduler

\* the application shutting down, whatever the listener and the jobs are
\* doing; lifespan runs on from the await to stop_scheduler
SpecShutdown ==
    Init /\ [][NextShutdown]_vars /\ WF_vars(lifespan_stop_scheduler)

NextDeliver ==
    \/ scheduler_fire("ingest_abuseipdb")
    \/ \E data \in GoodResponses : job_ingest_abuseipdb_fetch("ok", data)
    \/ job_ingest_abuseipdb_push(TRUE)
    \/ job_ingest_abuseipdb_publish(TRUE)
    \/ job_ingest_abuseipdb_increment(TRUE)
    \/ ws_attacks_accept(1)
    \/ ws_attacks_hello(1, TRUE)
    \/ ws_attacks_recent(1, TRUE)
    \/ ws_attacks_disconnect(1)
    \/ listener_subscribed
    \/ listener_message
    \/ broadcast_send(1, TRUE)

\* a connection joining while the job publishes, the listener staying
\* subscribed and every send succeeding
SpecDeliver == Init /\ [][NextDeliver]_vars
====
